---- MODULE Spec2Model ----
(***************************************************************************)
(* Model of the workbook analysis scripts of Jos-zenith/uzhavan:           *)
(*   analyze_excel.py                (specification Spec)                  *)
(*   analyze_excel_final.py          (specification SpecFinal)             *)
(*   analyze_excel_comprehensive.py  (specification SpecComp)              *)
(* A sheet is a grid of cells; a cell value carries its Python type name   *)
(* and its text, so that "is None", truthiness and type(v).__name__ are    *)
(* computed as the scripts compute them.                                   *)
(***************************************************************************)
EXTENDS Integers, Sequences, FiniteSets, TLC

VARIABLES wb, pc, msme_info, charter_info, response, run, prev_output,
          file_exists, cwb, cpc, sheet_idx, analysis, exit_status,
          output_file, stdout_json, messages,
          fpc, msme_final, charter_final, final_response

vars == <<wb, pc, msme_info, charter_info, response, run, prev_output,
          file_exists, cwb, cpc, sheet_idx, analysis, exit_status,
          output_file, stdout_json, messages,
          fpc, msme_final, charter_final, final_response>>

basicVars == <<wb, pc, msme_info, charter_info, response, run, prev_output>>
compVars == <<file_exists, cwb, cpc, sheet_idx, analysis, exit_status,
              output_file, stdout_json, messages>>
finalVars == <<fpc, msme_final, charter_final, final_response>>

(***************************************************************************)
(* Bounds of the model                                                     *)
(***************************************************************************)
MaxCol == 2
MaxDenseRows == 5
MaxWideRows == 2
MaxLead == 10
MaxGap == 20

(***************************************************************************)
(* Program constants of analyze_excel.py                                   *)
(***************************************************************************)
ScanStop == 10
TypeStop == 20
MaxDataRows == 3
ResponseSampleCap == 3

(***************************************************************************)
(* Cell values                                                             *)
(***************************************************************************)
None == [t |-> "NoneType", v |-> "None"]
PyStr(s) == [t |-> "str", v |-> s]
PyInt(s) == [t |-> "int", v |-> s]

CellValues == {None, PyStr(""), PyStr(" "), PyInt("0"), PyStr("h")}

IsNone(c) == c = None

\* Python truthiness of a cell value, as used by `value or default`
Truthy(c) ==
    /\ ~IsNone(c)
    /\ ~(c.t = "str" /\ c.v = "")
    /\ ~(c.t = "int" /\ c.v = "0")

TypeName(c) == c.t

Min(a, b) == IF a < b THEN a ELSE b

\* range(a, b) of Python: a, a+1, ..., b-1
Range(a, b) == a .. (b - 1)

(***************************************************************************)
(* Sheets: a sequence of rows, each a sequence of max_column cells          *)
(***************************************************************************)
max_row(ws) == Len(ws)
max_column(ws) == Len(ws[1])

Cell(ws, r, c) == IF r \in 1..Len(ws) /\ c \in 1..Len(ws[r]) THEN ws[r][c] ELSE None

RowData(ws, r) == [c \in 1..max_column(ws) |-> Cell(ws, r, c)]

AnyNotNone(row) == \E i \in 1..Len(row) : ~IsNone(row[i])

RowsOf(n) == [1..n -> CellValues]

BlankRow(n) == [c \in 1..n |-> None]

Blank(k, n) == [r \in 1..k |-> BlankRow(n)]

RECURSIVE RowSeqs(_, _)
RowSeqs(n, len) ==
    IF len = 0 THEN {<<>>}
    ELSE {Append(s, r) : s \in RowSeqs(n, len - 1), r \in RowsOf(n)}

\* dense sheets: up to maxRows rows of n columns, every cell free
DenseSheets(n, maxRows) == UNION {RowSeqs(n, k) : k \in 1..maxRows}

\* leading blank rows followed by one row
LeadSheets(n) ==
    {Blank(l, n) \o <<r>> : l \in 1..MaxLead, r \in RowsOf(n)}

\* up to one blank row, a row, a gap of blank rows, and a last row
GapSheets(n) ==
    {Blank(l, n) \o <<h>> \o Blank(g, n) \o <<t>> :
        l \in 0..1, h \in RowsOf(n), g \in 1..MaxGap, t \in RowsOf(n)}

RichSheets ==
    DenseSheets(1, MaxDenseRows)
      \cup UNION {DenseSheets(n, MaxWideRows) : n \in 2..MaxCol}
      \cup UNION {LeadSheets(n) : n \in 1..MaxCol}
      \cup GapSheets(1)

PlainSheets == {<<<<PyStr("h")>>, <<PyInt("0")>>>>}

Workbooks ==
    {[msme |-> s, charter |-> p] : s \in RichSheets, p \in PlainSheets}
      \cup {[msme |-> p, charter |-> s] : s \in RichSheets, p \in PlainSheets}

(***************************************************************************)
(* analyze_excel.py: analyze_sheet                                         *)
(***************************************************************************)
Unset == [unset |-> TRUE]

\* rows the header scan visits: range(1, min(10, ws.max_row + 1))
ScanRows(ws) == Range(1, Min(ScanStop, max_row(ws) + 1))

\* rows of the scan that hold at least one non-None cell
ContentRows(ws) == {r \in ScanRows(ws) : AnyNotNone(RowData(ws, r))}

SetMin(S) == CHOOSE m \in S : \A x \in S : m <= x

\* header_row_idx after the scan loop: the first content row, else the initial 1
HeaderRowIdx(ws) == IF ContentRows(ws) = {} THEN 1 ELSE SetMin(ContentRows(ws))

\* result["headers"]: the row found, else the initial []
Headers(ws) ==
    IF ContentRows(ws) = {} THEN <<>> ELSE RowData(ws, HeaderRowIdx(ws))

\* rows range(lo, hi) of the sheet, as a sequence of row_data lists
RowsBetween(ws, lo, hi) ==
    [k \in 1..(IF hi > lo THEN hi - lo ELSE 0) |-> RowData(ws, lo + k - 1)]

\* result["sample_rows"]
SampleRows(ws, h, max_data_rows) ==
    SelectSeq(RowsBetween(ws, h + 1, Min(h + 1 + max_data_rows, max_row(ws) + 1)),
              AnyNotNone)

\* rows the type loop visits for a header at row h
TypeRows(ws, h) == Range(h + 1, Min(h + TypeStop, max_row(ws) + 1))

\* col_types after the inner loop
ColTypes(ws, h, c) ==
    {TypeName(Cell(ws, r, c)) : r \in {x \in TypeRows(ws, h) : ~IsNone(Cell(ws, x, c))}}

\* col_name = ws.cell(header_row_idx, col_idx).value or f"Column_{col_idx}"
ColName(ws, h, c) ==
    IF Truthy(Cell(ws, h, c)) THEN Cell(ws, h, c)
    ELSE PyStr("Column_" \o ToString(c))

\* list(col_types): a set of strings lists in an order that the hash seed of
\* the run decides, so every order of the set is a possible outcome
Orderings(S) ==
    {s \in [1..Cardinality(S) -> S] : \A x \in S : \E i \in 1..Cardinality(S) : s[i] = x}

TypesLists(ws, h, c) ==
    IF ColTypes(ws, h, c) = {} THEN {<<"Empty/None">>}
    ELSE Orderings(ColTypes(ws, h, c))

ColumnTypeEntries(ws, h, c) ==
    {[column |-> ColName(ws, h, c), types |-> l] : l \in TypesLists(ws, h, c)}

ColumnTypesLists(ws, h) ==
    {ct \in [1..max_column(ws) -> UNION {ColumnTypeEntries(ws, h, c) : c \in 1..max_column(ws)}] :
        \A c \in 1..max_column(ws) : ct[c] \in ColumnTypeEntries(ws, h, c)}

\* the results analyze_sheet(sheet_name, max_data_rows) can return
analyze_sheet(ws, sheet_name, max_data_rows) ==
    {[sheet_name |-> sheet_name,
      total_rows |-> max_row(ws),
      total_columns |-> max_column(ws),
      header_row_idx |-> HeaderRowIdx(ws),
      headers |-> Headers(ws),
      sample_rows |-> SampleRows(ws, HeaderRowIdx(ws), max_data_rows),
      column_types |-> ct] : ct \in ColumnTypesLists(ws, HeaderRowIdx(ws))}

Take(s, n) == SubSeq(s, 1, Min(n, Len(s)))

\* one entry of response["msme_sheet"]["columns"], i counted from 1
ResponseColumn(info, i) ==
    [name |-> IF i <= Len(info.headers) THEN info.headers[i]
              ELSE PyStr("Column_" \o ToString(i)),
     data_type |-> IF i <= Len(info.column_types) /\ Len(info.column_types[i].types) > 0
                   THEN info.column_types[i].types[1] ELSE "Unknown",
     description |-> ""]

ResponseSheet(info) ==
    [columns |-> [i \in 1..Len(info.headers) |-> ResponseColumn(info, i)],
     sample_rows |-> Take(info.sample_rows, ResponseSampleCap),
     total_rows |-> info.total_rows]

BuildResponseValue(m, c) ==
    [sheets |-> <<"msme", "charter">>,
     msme_sheet |-> ResponseSheet(m),
     charter_sheet |-> ResponseSheet(c)]

(***************************************************************************)
(* analyze_excel.py: the script, run MaxRuns times on the same workbook    *)
(***************************************************************************)
MaxRuns == 2

InitFinal0 ==
    /\ fpc = "idle" /\ msme_final = Unset /\ charter_final = Unset
    /\ final_response = Unset

InitComp0 ==
    /\ file_exists = TRUE /\ cwb = <<>> /\ cpc = "idle" /\ sheet_idx = 0
    /\ analysis = Unset /\ exit_status = 0 /\ output_file = Unset
    /\ stdout_json = Unset /\ messages = <<>>

Init ==
    /\ wb \in Workbooks
    /\ pc = "analyze_msme"
    /\ msme_info = Unset /\ charter_info = Unset /\ response = Unset
    /\ run = 1 /\ prev_output = Unset
    /\ InitComp0
    /\ InitFinal0

AnalyzeMsme ==
    /\ pc = "analyze_msme"
    /\ msme_info' \in analyze_sheet(wb.msme, "msme", MaxDataRows)
    /\ pc' = "analyze_charter"
    /\ UNCHANGED <<wb, charter_info, response, run, prev_output>>
    /\ UNCHANGED <<compVars, finalVars>>

AnalyzeCharter ==
    /\ pc = "analyze_charter"
    /\ charter_info' \in analyze_sheet(wb.charter, "charter", MaxDataRows)
    /\ pc' = "build_response"
    /\ UNCHANGED <<wb, msme_info, response, run, prev_output>>
    /\ UNCHANGED <<compVars, finalVars>>

BuildResponse ==
    /\ pc = "build_response"
    /\ response' = BuildResponseValue(msme_info, charter_info)
    /\ pc' = "done"
    /\ UNCHANGED <<wb, msme_info, charter_info, run, prev_output>>
    /\ UNCHANGED <<compVars, finalVars>>

\* what one run prints: both sheet dumps and the final response
Output == <<msme_info, charter_info, response>>

\* the script is started again on the unchanged workbook
Rerun ==
    /\ pc = "done"
    /\ run < MaxRuns
    /\ prev_output' = Output
    /\ run' = run + 1
    /\ pc' = "analyze_msme"
    /\ msme_info' = Unset /\ charter_info' = Unset /\ response' = Unset
    /\ UNCHANGED wb
    /\ UNCHANGED <<compVars, finalVars>>

Next == AnalyzeMsme \/ AnalyzeCharter \/ BuildResponse \/ Rerun

Spec == Init /\ [][Next]_vars

(***************************************************************************)
(* analyze_excel_final.py                                                  *)
(***************************************************************************)
MsmeHeaderRow == 2
MsmeDataStart == 3
CharterHeaderRow == 3
CharterDataStart == 4
FinalSampleCap == 2

MsmeSampleRows == <<3, 5, 10>>
CharterSampleRows == <<4, 6, 8>>

\* msme_headers / charter_headers: the non-None cells of the header row
FinalHeaders(ws, header_row) == SelectSeq(RowData(ws, header_row), LAMBDA c : ~IsNone(c))

\* row_data of a sample row: the first len(headers) columns
FinalRowData(ws, r, headers) == [c \in 1..Len(headers) |-> Cell(ws, r, c)]

\* msme_samples / charter_samples after the loop over the listed rows
RECURSIVE FinalSamples(_, _, _, _)
FinalSamples(ws, headers, rows, n) ==
    IF n = 0 THEN <<>>
    ELSE LET before == FinalSamples(ws, headers, rows, n - 1)
             row_data == FinalRowData(ws, rows[n], headers)
         IN  IF rows[n] <= max_row(ws) /\ AnyNotNone(row_data)
             THEN Append(before, row_data) ELSE before

\* msme_data_rows / charter_data_rows
FinalDataRows(ws, data_start) ==
    Cardinality({r \in data_start..max_row(ws) : AnyNotNone(RowData(ws, r))})

ReadSheet(ws, header_row, data_start, rows) ==
    [title |-> Cell(ws, 1, 1),
     header_row |-> header_row,
     headers |-> FinalHeaders(ws, header_row),
     samples |-> FinalSamples(ws, FinalHeaders(ws, header_row), rows, Len(rows)),
     data_rows |-> FinalDataRows(ws, data_start)]

FinalResponseSheet(f) ==
    [title |-> f.title,
     columns |-> [i \in 1..Len(f.headers) |->
                    [name |-> IF i <= Len(f.headers) THEN f.headers[i]
                              ELSE PyStr("Column_" \o ToString(i))]],
     sample_rows |-> Take(f.samples, FinalSampleCap),
     total_rows |-> f.data_rows,
     total_columns |-> Len(f.headers)]

InitFinal ==
    /\ wb \in Workbooks
    /\ fpc = "read_msme"
    /\ msme_final = Unset /\ charter_final = Unset /\ final_response = Unset
    /\ pc = "idle" /\ msme_info = Unset /\ charter_info = Unset
    /\ response = Unset /\ run = 0 /\ prev_output = Unset
    /\ InitComp0

\* lines 16-46
ReadMsme ==
    /\ fpc = "read_msme"
    /\ msme_final' = ReadSheet(wb.msme, MsmeHeaderRow, MsmeDataStart, MsmeSampleRows)
    /\ fpc' = "read_charter"
    /\ UNCHANGED <<charter_final, final_response, basicVars, compVars>>

\* lines 51-84
ReadCharter ==
    /\ fpc = "read_charter"
    /\ charter_final' = ReadSheet(wb.charter, CharterHeaderRow, CharterDataStart, CharterSampleRows)
    /\ fpc' = "build_response"
    /\ UNCHANGED <<msme_final, final_response, basicVars, compVars>>

\* lines 90-132
BuildFinalResponse ==
    /\ fpc = "build_response"
    /\ final_response' = [sheets |-> <<"msme", "charter">>,
                          msme_sheet |-> FinalResponseSheet(msme_final),
                          charter_sheet |-> FinalResponseSheet(charter_final)]
    /\ fpc' = "done"
    /\ UNCHANGED <<msme_final, charter_final, basicVars, compVars>>

NextFinal == ReadMsme \/ ReadCharter \/ BuildFinalResponse

SpecFinal == InitFinal /\ [][NextFinal]_vars

(***************************************************************************)
(* analyze_excel_comprehensive.py: strings                                 *)
(***************************************************************************)
UpperChars == "ABCDEFGHIJKLMNOPQRSTUVWXYZ"
LowerChars == "abcdefghijklmnopqrstuvwxyz"

CharAt(s, i) == SubSeq(s, i, i)

LowerChar(ch) ==
    IF \E i \in 1..Len(UpperChars) : CharAt(UpperChars, i) = ch
    THEN CharAt(LowerChars, CHOOSE i \in 1..Len(UpperChars) : CharAt(UpperChars, i) = ch)
    ELSE ch

\* str.lower()
RECURSIVE Lower(_)
Lower(s) == IF Len(s) = 0 THEN "" ELSE LowerChar(CharAt(s, 1)) \o Lower(SubSeq(s, 2, Len(s)))

\* keyword in s
Contains(s, keyword) ==
    \E i \in 1..(Len(s) - Len(keyword) + 1) : SubSeq(s, i, i + Len(keyword) - 1) = keyword

LocationKeywords == {"location", "place", "area", "region", "district", "state", "address"}
CropKeywords == {"crop", "variety", "seed", "seedling", "type", "name"}
StockKeywords == {"stock", "quantity", "qty", "count", "amount", "units"}
OutletKeywords == {"outlet", "store", "shop", "seller", "vendor"}

\* any(keyword in col_lower for keyword in [...])
AnyKeyword(col_lower, keywords) == \E k \in keywords : Contains(col_lower, k)

(***************************************************************************)
(* analyze_excel_comprehensive.py: the dataframe pd.read_excel returns      *)
(***************************************************************************)
HeadRows == 5
UniqueCap == 10

PyDate(s) == [t |-> "datetime", v |-> s]

\* a sheet: [readable, grid]; row 1 of the grid is the header row
NumCols(sheet) == IF Len(sheet.grid) = 0 THEN 0 ELSE Len(sheet.grid[1])
NumRows(sheet) == IF Len(sheet.grid) = 0 THEN 0 ELSE Len(sheet.grid) - 1

\* the label pandas gives a header cell: the value, or "Unnamed: <k>" for an
\* empty cell (k counted from 0)
RawLabel(sheet, j) ==
    IF IsNone(sheet.grid[1][j]) THEN PyStr("Unnamed: " \o ToString(j - 1))
    ELSE sheet.grid[1][j]

\* duplicate labels get the suffix .1, .2, ...
ColumnLabel(sheet, j) ==
    LET earlier == Cardinality({i \in 1..(j - 1) : RawLabel(sheet, i) = RawLabel(sheet, j)})
    IN  IF earlier = 0 THEN RawLabel(sheet, j)
        ELSE PyStr(RawLabel(sheet, j).v \o "." \o ToString(earlier))

\* list(df.columns)
Columns(sheet) == [j \in 1..NumCols(sheet) |-> ColumnLabel(sheet, j)]

\* df[col]: the cells under the header
ColumnValues(sheet, j) == [r \in 1..NumRows(sheet) |-> sheet.grid[r + 1][j]]

SeqRange(q) == {q[i] : i \in 1..Len(q)}

NotNa(q) == SelectSeq(q, LAMBDA c : ~IsNone(c))

\* str(df[col].dtype)
Dtype(q) ==
    LET kinds == {c.t : c \in SeqRange(NotNa(q))}
    IN  IF Len(q) = 0 THEN "object"
        ELSE IF kinds = {} THEN "float64"
        ELSE IF kinds = {"int"} THEN (IF Len(NotNa(q)) = Len(q) THEN "int64" ELSE "float64")
        ELSE IF kinds = {"datetime"} THEN "datetime64[ns]"
        ELSE "object"

\* df.head(5).values.tolist()
HeadValues(sheet) ==
    [r \in 1..Min(HeadRows, NumRows(sheet)) |-> sheet.grid[r + 1]]

\* df[col].unique(): distinct values in order of first appearance, NaN included
RECURSIVE Unique(_)
Unique(q) ==
    IF Len(q) = 0 THEN <<>>
    ELSE LET init == Unique(SubSeq(q, 1, Len(q) - 1))
             last == q[Len(q)]
         IN  IF last \in SeqRange(init) THEN init ELSE Append(init, last)

\* df[col].nunique(): NaN is not counted
NUnique(q) == Cardinality(SeqRange(NotNa(q)))

\* str(v)
StrOf(c) == IF IsNone(c) THEN "nan" ELSE c.v

NumVal(c) == CHOOSE n \in 0..9 : ToString(n) = c.v

RECURSIVE SumOf(_)
SumOf(q) == IF Len(q) = 0 THEN 0 ELSE NumVal(q[1]) + SumOf(Tail(q))

CategoricalPattern(q) ==
    [type |-> "categorical",
     unique_count |-> NUnique(q),
     sample_values |-> [i \in 1..Min(UniqueCap, Len(Unique(q))) |-> StrOf(Unique(q)[i])]]

\* min, max as numbers; mean as the pair <<sum, count>>; None when all is NaN
NumericPattern(q) ==
    LET vals == {NumVal(c) : c \in SeqRange(NotNa(q))}
    IN  [type |-> "numeric",
         min |-> IF vals = {} THEN None ELSE CHOOSE m \in vals : \A x \in vals : m <= x,
         max |-> IF vals = {} THEN None ELSE CHOOSE m \in vals : \A x \in vals : m >= x,
         mean |-> IF vals = {} THEN None ELSE <<SumOf(NotNa(q)), Len(NotNa(q))>>,
         non_null_count |-> Len(NotNa(q))]

Pattern(q) == IF Dtype(q) = "object" THEN CategoricalPattern(q) ELSE NumericPattern(q)

\* what column j raises inside the loop over df.columns, "" when nothing
ColumnError(sheet, j) ==
    IF ColumnLabel(sheet, j).t # "str"
    THEN "'" \o ColumnLabel(sheet, j).t \o "' object has no attribute 'lower'"
    ELSE IF Dtype(ColumnValues(sheet, j)) = "datetime64[ns]"
    THEN "float() argument must be a string or a real number, not 'Timestamp'"
    ELSE ""

\* str(e) of the exception the try block raises for the sheet, "" when none
SheetError(sheet) ==
    IF ~sheet.readable THEN "cannot read sheet"
    ELSE LET bad == {j \in 1..NumCols(sheet) : ColumnError(sheet, j) # ""}
         IN  IF bad = {} THEN "" ELSE ColumnError(sheet, SetMin(bad))

\* the bucket lists when the keywords are matched against col, not col_lower
RECURSIVE BucketColumnsCaseSensitive(_, _, _)
BucketColumnsCaseSensitive(sheet, keywords, n) ==
    IF n = 0 THEN <<>>
    ELSE LET col == ColumnLabel(sheet, n)
             before == BucketColumnsCaseSensitive(sheet, keywords, n - 1)
         IN  IF AnyKeyword(col.v, keywords) THEN Append(before, col) ELSE before

\* the columns appended to one bucket list, in column order
RECURSIVE BucketColumns(_, _, _)
BucketColumns(sheet, keywords, n) ==
    IF n = 0 THEN <<>>
    ELSE LET col == ColumnLabel(sheet, n)
             col_lower == Lower(col.v)
             before == BucketColumns(sheet, keywords, n - 1)
         IN  IF AnyKeyword(col_lower, keywords) THEN Append(before, col) ELSE before

\* the dictionary sheet_analysis of a sheet whose analysis does not raise
SheetAnalysis(sheet) ==
    [dimensions |-> [rows |-> NumRows(sheet), columns |-> NumCols(sheet)],
     column_names |-> Columns(sheet),
     data_types |-> [l \in SeqRange(Columns(sheet)) |->
                       Dtype(ColumnValues(sheet, CHOOSE j \in 1..NumCols(sheet) : ColumnLabel(sheet, j) = l))],
     sample_rows |-> HeadValues(sheet),
     patterns |-> [l \in SeqRange(Columns(sheet)) |->
                       Pattern(ColumnValues(sheet, CHOOSE j \in 1..NumCols(sheet) : ColumnLabel(sheet, j) = l))],
     identified_fields |->
        [location_fields |-> BucketColumns(sheet, LocationKeywords, NumCols(sheet)),
         crop_fields |-> BucketColumns(sheet, CropKeywords, NumCols(sheet)),
         stock_fields |-> BucketColumns(sheet, StockKeywords, NumCols(sheet)),
         outlet_fields |-> BucketColumns(sheet, OutletKeywords, NumCols(sheet))]]

\* analysis["sheets"][sheet_name] after the try/except of one sheet
SheetEntry(sheet) ==
    IF SheetError(sheet) = "" THEN SheetAnalysis(sheet) ELSE [error |-> SheetError(sheet)]

Put(f, k, val) == [x \in (DOMAIN f) \cup {k} |-> IF x = k THEN val ELSE f[x]]

\* json.dump has no default=: a datetime among the sample rows is not serializable
Serializable(a) ==
    \A n \in DOMAIN a.sheets :
        "sample_rows" \in DOMAIN a.sheets[n] =>
            \A r \in 1..Len(a.sheets[n].sample_rows) :
                \A c \in 1..Len(a.sheets[n].sample_rows[r]) :
                    a.sheets[n].sample_rows[r][c].t # "datetime"

(***************************************************************************)
(* analyze_excel_comprehensive.py: workbooks of the model                  *)
(***************************************************************************)
MaxSheets == 3
MaxCompRows == 3

CompValues ==
    {None, PyStr("A"), PyInt("1"), PyDate("2024-01-01 00:00:00")}

HeaderCells ==
    {PyStr("District"), PyStr("Crop Name"), PyStr("STOCK"), PyStr("Stock"),
     PyStr("Outlet Address"), PyStr("Estate"), PyStr("Remarks"), None, PyInt("7")}

RECURSIVE ValueSeqs(_)
ValueSeqs(len) ==
    IF len = 0 THEN {<<>>}
    ELSE {Append(q, x) : q \in ValueSeqs(len - 1), x \in CompValues}

\* the grid of a one-column sheet with header h and cells q
OneColumnGrid(h, q) == <<<<h>>>> \o [r \in 1..Len(q) |-> <<q[r]>>]

OneColumnSheets ==
    {[readable |-> TRUE, grid |-> OneColumnGrid(h, q)] :
        h \in HeaderCells, q \in UNION {ValueSeqs(k) : k \in 0..MaxCompRows}}

TwoColumnSheets ==
    {[readable |-> TRUE, grid |-> <<<<h1, h2>>, <<x1, x2>>>>] :
        h1 \in HeaderCells, h2 \in HeaderCells, x1 \in CompValues, x2 \in CompValues}

TypicalSheets ==
    {[readable |-> TRUE, grid |-> OneColumnGrid(PyStr("Crop Name"), <<PyStr("A"), PyStr("B"), PyStr("A")>>)],
     [readable |-> FALSE, grid |-> OneColumnGrid(PyStr("Stock"), <<PyInt("1")>>)],
     [readable |-> TRUE, grid |-> OneColumnGrid(PyInt("7"), <<PyStr("A")>>)],
     [readable |-> TRUE, grid |-> OneColumnGrid(PyStr("District"), <<PyDate("2024-01-01 00:00:00")>>)],
     [readable |-> TRUE, grid |-> OneColumnGrid(PyStr("Remarks"), <<PyStr("A"), PyDate("2024-01-01 00:00:00")>>)],
     [readable |-> TRUE, grid |-> OneColumnGrid(PyStr("STOCK"), <<PyInt("1"), PyInt("2")>>)]}

RECURSIVE SheetSeqs(_)
SheetSeqs(len) ==
    IF len = 0 THEN {<<>>}
    ELSE {Append(q, x) : q \in SheetSeqs(len - 1), x \in TypicalSheets}

CompWorkbooks ==
    UNION {SheetSeqs(k) : k \in 0..MaxSheets}
      \cup {<<x>> : x \in OneColumnSheets \cup TwoColumnSheets}

\* wb.sheetnames: the sheets are named by position
SheetName(i) == "Sheet" \o ToString(i)
SheetNames(book) == [i \in 1..Len(book) |-> SheetName(i)]

(***************************************************************************)
(* analyze_excel_comprehensive.py: the script                              *)
(***************************************************************************)
Absent == [absent |-> TRUE]
OldFile == [old |-> TRUE]
Partial == [partial |-> TRUE]

ExitStatus == 1

\* the existence test with its condition inverted
FileMissingInverted == file_exists

\* not Path(excel_path).exists()
FileMissing == ~file_exists

InitBasic0 ==
    /\ wb = Unset /\ pc = "idle" /\ msme_info = Unset /\ charter_info = Unset
    /\ response = Unset /\ run = 0 /\ prev_output = Unset

InitComp ==
    /\ file_exists \in BOOLEAN
    /\ cwb \in (IF file_exists THEN CompWorkbooks ELSE {<<>>})
    /\ cpc = "check"
    /\ sheet_idx = 0
    /\ analysis = Unset
    /\ exit_status = 0
    /\ output_file \in {Absent, OldFile}
    /\ stdout_json = Unset
    /\ messages = <<>>
    /\ InitBasic0
    /\ InitFinal0

\* lines 10-13
CheckFile ==
    /\ cpc = "check"
    /\ IF FileMissing
       THEN /\ messages' = Append(messages, "Error: File not found")
            /\ exit_status' = ExitStatus
            /\ cpc' = "exited"
       ELSE /\ cpc' = "load"
            /\ UNCHANGED <<messages, exit_status>>
    /\ UNCHANGED <<file_exists, cwb, sheet_idx, analysis, output_file, stdout_json>>
    /\ UNCHANGED <<basicVars, finalVars>>

\* lines 15-29; load_workbook raises when the file is not there
LoadWorkbook ==
    /\ cpc = "load"
    /\ IF file_exists
       THEN /\ analysis' = [file_path |-> "Farms Stock Report.xlsx",
                            sheet_names |-> SheetNames(cwb),
                            sheets |-> <<>>]
            /\ sheet_idx' = 1
            /\ messages' = Append(messages, "Excel File Analysis")
            /\ cpc' = (IF Len(cwb) = 0 THEN "write" ELSE "loop")
            /\ UNCHANGED exit_status
       ELSE /\ cpc' = "crashed"
            /\ exit_status' = 1
            /\ UNCHANGED <<analysis, sheet_idx, messages>>
    /\ UNCHANGED <<file_exists, cwb, output_file, stdout_json>>
    /\ UNCHANGED <<basicVars, finalVars>>

\* lines 32-127: one iteration of the loop, the try block and its handler
AnalyzeNextSheet ==
    /\ cpc = "loop"
    /\ sheet_idx <= Len(cwb)
    /\ analysis' = [analysis EXCEPT
                      !.sheets = Put(@, SheetName(sheet_idx), SheetEntry(cwb[sheet_idx]))]
    /\ messages' = Append(messages, "Analyzing sheet: " \o SheetName(sheet_idx))
    /\ sheet_idx' = sheet_idx + 1
    /\ cpc' = (IF sheet_idx = Len(cwb) THEN "write" ELSE "loop")
    /\ UNCHANGED <<file_exists, cwb, exit_status, output_file, stdout_json>>
    /\ UNCHANGED <<basicVars, finalVars>>

\* lines 130-132: open(output_path, 'w') truncates, json.dump may raise
WriteOutput ==
    /\ cpc = "write"
    /\ IF Serializable(analysis)
       THEN /\ output_file' = analysis
            /\ cpc' = "print"
            /\ UNCHANGED exit_status
       ELSE /\ output_file' = Partial
            /\ cpc' = "crashed"
            /\ exit_status' = 1
    /\ UNCHANGED <<file_exists, cwb, sheet_idx, analysis, stdout_json, messages>>
    /\ UNCHANGED <<basicVars, finalVars>>

\* lines 134-137
PrintOutput ==
    /\ cpc = "print"
    /\ stdout_json' = analysis
    /\ messages' = Append(messages, "Analysis saved")
    /\ cpc' = "done"
    /\ UNCHANGED <<file_exists, cwb, sheet_idx, analysis, exit_status, output_file>>
    /\ UNCHANGED <<basicVars, finalVars>>

NextComp == CheckFile \/ LoadWorkbook \/ AnalyzeNextSheet \/ WriteOutput \/ PrintOutput

SpecComp == InitComp /\ [][NextComp]_vars

(***************************************************************************)
(* Claims about analyze_excel.py                                           *)
(***************************************************************************)
\* the sheets analysed so far, each with the result analyze_sheet returned
Analyzed ==
    (IF msme_info = Unset THEN {} ELSE {<<wb.msme, msme_info>>})
      \cup (IF charter_info = Unset THEN {} ELSE {<<wb.charter, charter_info>>})

NonEmptyCount(row) == Cardinality({i \in 1..Len(row) : ~IsNone(row[i])})

Placeholder(i) == PyStr("Column_" \o ToString(i))

\* C1: if one of the first 10 rows of a sheet has a non-null cell, then
\* header_row_idx is the smallest such row, every row before it is entirely
\* null and headers is that row over the full column span (only null is empty).
C1_HeaderLocatorFirstTenRows ==
    \A a \in Analyzed :
        LET ws == a[1]
            info == a[2]
            firstTen == {r \in 1..Min(10, max_row(ws)) : AnyNotNone(RowData(ws, r))}
        IN  firstTen # {} =>
              /\ info.header_row_idx = SetMin(firstTen)
              /\ \A r \in 1..(info.header_row_idx - 1) : ~AnyNotNone(RowData(ws, r))
              /\ info.headers = RowData(ws, info.header_row_idx)

\* C2: the number of column names in the final response equals the number
\* of non-empty cells of the chosen header row.
C2_ColumnCountIsNonEmptyHeaderCells ==
    pc = "done" =>
      /\ Len(response.msme_sheet.columns)
            = NonEmptyCount(RowData(wb.msme, msme_info.header_row_idx))
      /\ Len(response.charter_sheet.columns)
            = NonEmptyCount(RowData(wb.charter, charter_info.header_row_idx))

\* C3: for every column the reported types are exactly the distinct type
\* labels of the non-null cells in the rows up to 20 past the header (clipped
\* at max_row), and the single sentinel "Empty/None" iff there is none.
C3_TypesAreLabelsOfTwentyRowWindow ==
    \A a \in Analyzed :
        LET ws == a[1]
            info == a[2]
            h == info.header_row_idx
            window == (h + 1)..Min(h + 20, max_row(ws))
        IN  \A c \in 1..max_column(ws) :
              LET labels == {TypeName(Cell(ws, r, c)) :
                                r \in {x \in window : ~IsNone(Cell(ws, x, c))}}
                  types == info.column_types[c].types
                  reported == {types[i] : i \in 1..Len(types)}
              IN  /\ Len(types) = Cardinality(reported)
                  /\ (labels = {}) <=> (types = <<"Empty/None">>)
                  /\ labels # {} => reported = labels

\* C4: a second run on the unchanged workbook prints the same output as the
\* first, including the order of every "types" list and every "data_type".
C4_SecondRunPrintsSameOutput ==
    (run = 2 /\ pc = "done") => Output = prev_output

\* the msme sheet of the scenario: row 1 a title, row 2 header strings in
\* every column, rows 3.. data, at least MaxDataRows of them
MsmeScenario ==
    LET ws == wb.msme
    IN  /\ max_row(ws) >= 2 + MaxDataRows
        /\ Cell(ws, 1, 1).t = "str" /\ Truthy(Cell(ws, 1, 1))
        /\ \A c \in 1..max_column(ws) : Cell(ws, 2, c).t = "str" /\ Truthy(Cell(ws, 2, c))
        /\ \A r \in 3..max_row(ws) : AnyNotNone(RowData(ws, r))

\* C7: on the scenario sheet the header row used is row 2 and sample_rows
\* holds exactly max_data_rows rows, each the raw cells of a row from 3 onward.
C7_SamplesStartAfterHeaderRowTwo ==
    (MsmeScenario /\ msme_info # Unset) =>
      /\ msme_info.header_row_idx = 2
      /\ Len(msme_info.sample_rows) = MaxDataRows
      /\ \A i \in 1..Len(msme_info.sample_rows) :
            \E r \in 3..max_row(wb.msme) : msme_info.sample_rows[i] = RowData(wb.msme, r)

\* the name the claim expects for column c of a sheet with header row h
ExpectedName(ws, h, c) ==
    IF ~IsNone(Cell(ws, h, c)) THEN Cell(ws, h, c) ELSE Placeholder(c)

NamesAsClaimed(ws, info, sheet) ==
    /\ \A c \in 1..Len(info.column_types) :
          info.column_types[c].column = ExpectedName(ws, info.header_row_idx, c)
    /\ pc = "done" =>
          \A i \in 1..Len(sheet.columns) :
              /\ ~IsNone(sheet.columns[i].name)
              /\ sheet.columns[i].name = ExpectedName(ws, info.header_row_idx, i)

\* C8: every reported column name is the header cell verbatim when the cell
\* is not null (zero and the empty string included) and "Column_<index>" when
\* it is null, in column_types and in the response; no name is null.
C8_NamesVerbatimOrPlaceholder ==
    /\ msme_info # Unset =>
          NamesAsClaimed(wb.msme, msme_info, IF pc = "done" THEN response.msme_sheet ELSE Unset)
    /\ charter_info # Unset =>
          NamesAsClaimed(wb.charter, charter_info,
                         IF pc = "done" THEN response.charter_sheet ELSE Unset)

(***************************************************************************)
(* The same claims on analyze_excel_final.py                               *)
(***************************************************************************)
\* C2 on analyze_excel_final.py: the response lists one column per non-empty
\* cell of the hard-coded header row.
FinalColumnCountIsNonEmptyHeaderCells ==
    fpc = "done" =>
      /\ Len(final_response.msme_sheet.columns)
            = NonEmptyCount(RowData(wb.msme, MsmeHeaderRow))
      /\ Len(final_response.charter_sheet.columns)
            = NonEmptyCount(RowData(wb.charter, CharterHeaderRow))

\* the scenario sheet with at least FinalSampleCap data rows
MsmeScenarioFinal ==
    LET ws == wb.msme
    IN  /\ max_row(ws) >= 2 + FinalSampleCap
        /\ Cell(ws, 1, 1).t = "str" /\ Truthy(Cell(ws, 1, 1))
        /\ \A c \in 1..max_column(ws) : Cell(ws, 2, c).t = "str" /\ Truthy(Cell(ws, 2, c))
        /\ \A r \in 3..max_row(ws) : \A c \in 1..max_column(ws) : ~IsNone(Cell(ws, r, c))

\* C7 on analyze_excel_final.py: header row 2, and exactly FinalSampleCap
\* sample rows, each the raw cells of a row from 3 onward.
FinalSamplesAreTwoDataRows ==
    (MsmeScenarioFinal /\ fpc = "done") =>
      /\ msme_final.header_row = 2
      /\ Len(final_response.msme_sheet.sample_rows) = FinalSampleCap
      /\ \A i \in 1..Len(final_response.msme_sheet.sample_rows) :
            \E r \in 3..max_row(wb.msme) :
                final_response.msme_sheet.sample_rows[i] = RowData(wb.msme, r)

(***************************************************************************)
(* Claims about analyze_excel_comprehensive.py                             *)
(***************************************************************************)
\* the sheets the loop has dealt with
Visited == 1..(IF cpc \in {"check", "load", "exited"} THEN 0 ELSE sheet_idx - 1)

Entry(i) == analysis.sheets[SheetName(i)]

IsComplete(e) ==
    DOMAIN e = {"dimensions", "column_names", "data_types", "sample_rows",
                "patterns", "identified_fields"}

\* C5: with the workbook file missing the run prints an error and exits with
\* status 1 before loading or analysing anything, and the output file is
\* neither created nor overwritten; with the file present the run never
\* takes that exit.
C5_MissingFileExitsBeforeLoad ==
    /\ (~file_exists /\ cpc # "check") =>
          /\ cpc = "exited"
          /\ exit_status = 1
          /\ messages = <<"Error: File not found">>
          /\ analysis = Unset
          /\ sheet_idx = 0
          /\ stdout_json = Unset
          /\ output_file \in {Absent, OldFile}
    /\ ~file_exists => output_file \in {Absent, OldFile}
    /\ file_exists => cpc # "exited"

C5_Witness ==
    ~file_exists /\ cpc = "exited" /\ exit_status = 1 /\ output_file = OldFile

\* the "Analyzing sheet" lines printed so far, in order
VisitLines == SelectSeq(messages, LAMBDA m : Len(m) > 17 /\ SubSeq(m, 1, 17) = "Analyzing sheet: ")

\* C6: whatever sheets raise, the loop visits every sheet in file order, ends
\* with exactly one entry per sheet name, {"error": message} for exactly the
\* failing sheets and a complete analysis for the others, and the output file
\* and the stdout JSON are still written.
C6_FailuresIsolatedAndOutputWritten ==
    /\ cpc \in {"write", "print", "done", "crashed"} =>
          /\ VisitLines = [i \in 1..Len(cwb) |-> "Analyzing sheet: " \o SheetName(i)]
          /\ DOMAIN analysis.sheets = {SheetName(i) : i \in 1..Len(cwb)}
          /\ \A i \in 1..Len(cwb) :
                IF SheetError(cwb[i]) # ""
                THEN DOMAIN Entry(i) = {"error"} /\ Entry(i).error = SheetError(cwb[i])
                ELSE IsComplete(Entry(i))
    /\ cpc # "crashed"
    /\ cpc = "done" => (output_file = analysis /\ stdout_json = analysis)

\* the labels of a bucket list, as a set
InBucket(e, label, bucket) ==
    \E i \in 1..Len(e.identified_fields[bucket]) : e.identified_fields[bucket][i] = label

FirstAppearance(q) ==
    LET idx == {i \in 1..Len(q) : \A k \in 1..(i - 1) : q[k] # q[i]}
    IN  [n \in 1..Cardinality(idx) |->
            q[CHOOSE i \in idx : Cardinality({k \in idx : k <= i}) = n]]

\* C10: for every object-typed column the pattern is categorical, unique_count
\* is the number of distinct values, sample_values is the distinct values in
\* order of first appearance cut to 10, and len(sample_values) is
\* min(unique_count, 10).
C10_CategoricalSummary ==
    \A i \in Visited :
        IsComplete(Entry(i)) =>
          \A j \in 1..NumCols(cwb[i]) :
              LET q == ColumnValues(cwb[i], j)
                  pat == Entry(i).patterns[ColumnLabel(cwb[i], j)]
                  distinct == FirstAppearance(q)
              IN  Dtype(q) = "object" =>
                    /\ pat.type = "categorical"
                    /\ pat.unique_count = Len(distinct)
                    /\ pat.sample_values
                          = [n \in 1..Min(10, Len(distinct)) |-> StrOf(distinct[n])]
                    /\ Len(pat.sample_values) = Min(pat.unique_count, 10)

====
